---- MODULE Spec2Model ----
(***************************************************************************)
(* Model of src/server.js: the clients table and the handler of            *)
(* PUT /api/v1/clients/:id, which changes the status and the priority of   *)
(* one client and renumbers the clients of the lanes it touches.           *)
(*                                                                         *)
(* Numbers.  The handler computes priority - 0.5, so every priority of the *)
(* model is kept in half units: Units(p) is the number p, Units(p) - 1 is  *)
(* p - 0.5.  A stored priority k is the value Units(k) in db.              *)
(*                                                                         *)
(* Rows.  `select * from clients` returns the rows in id order; the id of  *)
(* the row db[i] is i.                                                     *)
(***************************************************************************)
EXTENDS Integers, Sequences, FiniteSets

VARIABLES
    db,        \* the clients table (line 15): row id |-> [status, priority]
    nullable,  \* what the table does with a status written as undefined
               \* (line 209): TRUE, it is stored as NULL; FALSE, the write is
               \* refused and the transaction rolls back.  The schema of
               \* clients.db is not part of the source, so both are possible.
    req,       \* the request being answered (lines 131, 137), or Idle
    prev,      \* the rows the handler read (line 138)
    sent,      \* the codes of the handler's res.status(..).send(..) calls
    thrown     \* the exception that ended the handler, or "none"

vars == <<db, nullable, req, prev, sent, thrown>>

\* Number of rows of the clients table.
NumClients == 3

Units(p) == 2 * p

\* JavaScript values of the request and of a row that are not lane names.
Undefined == "undefined"      \* the field is missing from the request body
Null == "null"                \* SQL NULL read back from a row
NaN == -1                     \* parseInt of a path segment that is no number
NoPriority == 0               \* priority missing from the body (falsy, as 0 is)
\* Stands for 2^53 - 1: only its being above every stored priority matters.
MAX_SAFE_INTEGER == 1073741823

Lanes == {"backlog", "in-progress", "complete"}

validStatusesWithDone == {"backlog", "in-progress", "complete", "done"}

validStatuses == {"backlog", "in-progress", "complete"}

Ids == 1..NumClients
IdInputs == {NaN} \cup (1..(NumClients + 1))
StatusInputs == {Undefined, "", "backlog", "in-progress", "complete", "done"}
PriorityInputs == {NoPriority} \cup (1..(NumClients + 1))

\* JavaScript truthiness of the two body fields.
TruthyStatus(status) == status \notin {Undefined, ""}
TruthyPriority(priority) == priority # NoPriority

\* validateId: the id is a number and a row with that id exists.
validateId(id) == id # NaN /\ id \in DOMAIN db

allIds == [i \in Ids |-> i]

\* (a, b) => a.priority - b.priority
compareDescending(mem, a, b) == mem[b].priority - mem[a].priority

compare(mem, a, b) == mem[a].priority - mem[b].priority

\* Array.prototype.sort with that comparator: a stable sort of the ids s by
\* the priority of the objects mem.
InsertSorted(s, c, mem) ==
    LET k == Cardinality({i \in 1..Len(s) : compare(mem, s[i], c) <= 0})
    IN  SubSeq(s, 1, k) \o <<c>> \o SubSeq(s, k + 1, Len(s))

RECURSIVE sort(_, _)
sort(s, mem) ==
    IF s = <<>> THEN <<>>
    ELSE InsertSorted(sort(SubSeq(s, 1, Len(s) - 1), mem), s[Len(s)], mem)

\* forEach((c, index) => (c.priority = index + 1)) on the objects of s.
renumber(s, mem) ==
    [i \in DOMAIN mem |->
        IF \E k \in 1..Len(s) : s[k] = i
        THEN [mem[i] EXCEPT !.priority =
                 Units(CHOOSE k \in 1..Len(s) : s[k] = i)]
        ELSE mem[i]]

\* The grouping loop: the clients of the target's current status, and the
\* others that have the requested status.
clientsWithEveryStatus(mem, oldStatus) == allIds

clientsWithSameOldStatus(mem, oldStatus) ==
    LET InOld(i) == mem[i].status = oldStatus IN SelectSeq(allIds, InOld)

clientsWithSameNewStatus(mem, oldStatus, newStatus) ==
    LET InNew(i) == mem[i].status # oldStatus /\ mem[i].status = newStatus
    IN  SelectSeq(allIds, InNew)

\* The objects after the handler's reordering, and the list it writes back.
Reorder(id, status, priority) ==
    LET mem0 == db
        newStatus == status
        oldStatus == mem0[id].status
        oldPriority == mem0[id].priority
        shouldReorderPriority ==
            TruthyPriority(priority) /\ oldPriority # Units(priority)
        sameOld == clientsWithSameOldStatus(mem0, oldStatus)
        sameNew == clientsWithSameNewStatus(mem0, oldStatus, newStatus)
    IN  IF oldStatus = newStatus /\ shouldReorderPriority
        THEN \* Case 1
             LET mem1 == [mem0 EXCEPT ![id].priority = Units(priority) - 1]
                 new1 == sort(Append(sameNew, id), mem1)
                 mem2 == renumber(new1, mem1)
             IN  [mem |-> mem2, old |-> sameOld, new |-> new1]
        ELSE IF oldStatus # newStatus
        THEN \* Case 2
             LET mem1 == [mem0 EXCEPT
                            ![id].status = newStatus,
                            ![id].priority =
                                IF TruthyPriority(priority)
                                THEN Units(priority) - 1
                                ELSE Units(MAX_SAFE_INTEGER)]
                 NotTarget(i) == i # id
                 old1 == sort(SelectSeq(sameOld, NotTarget), mem1)
                 mem2 == renumber(old1, mem1)
                 new1 == sort(Append(sameNew, id), mem2)
                 mem3 == renumber(new1, mem2)
             IN  [mem |-> mem3, old |-> old1, new |-> new1]
        ELSE [mem |-> mem0, old |-> sameOld, new |-> sameNew]

updatedClients(r, oldStatus, newStatus) ==
    LET Other(i) == r.mem[i].status # oldStatus /\ r.mem[i].status # newStatus
    IN  SelectSeq(allIds, Other) \o r.old \o r.new

\* updateStmt.run for every client of the list, in one transaction.  A row
\* written with an undefined status becomes NULL.
RECURSIVE runAll(_, _, _)
runAll(list, mem, table) ==
    IF list = <<>> THEN table
    ELSE LET c == Head(list)
             row == [status |-> IF mem[c].status = Undefined
                                THEN Null ELSE mem[c].status,
                     priority |-> mem[c].priority]
         IN  runAll(Tail(list), mem, [table EXCEPT ![c] = row])

\* Does some write of the transaction carry an undefined status?
WritesUndefined(list, mem) ==
    \E k \in 1..Len(list) : mem[list[k]].status = Undefined

\* A dense store: every client in a lane, numbered 1..n in id order.
DenseRows(lane) ==
    [i \in Ids |->
        [status |-> lane[i],
         priority |-> Units(Cardinality({j \in 1..i : lane[j] = lane[i]}))]]

\* No request is being handled.
Idle == [id |-> NaN, status |-> "idle", priority |-> NoPriority]

Init ==
    /\ \E lane \in [Ids -> Lanes] : db = DenseRows(lane)
    /\ nullable \in BOOLEAN
    /\ req = Idle
    /\ prev = db
    /\ sent = <<>>
    /\ thrown = "none"

\* app.put("/api/v1/clients/:id")
Put(id, status, priority) ==
    LET valid == validateId(id)
        sent1 == IF valid THEN <<>> ELSE <<400>>
        found == id \in DOMAIN db
    IN  /\ req = Idle
        /\ req' = [id |-> id, status |-> status, priority |-> priority]
        /\ prev' = db
        /\ UNCHANGED nullable
        /\ IF TruthyStatus(status) /\ status \notin validStatuses
           THEN \* return res.status(400).send(...)
                /\ sent' = Append(sent1, 400)
                /\ thrown' = IF valid THEN "none" ELSE "ERR_HTTP_HEADERS_SENT"
                /\ UNCHANGED db
           ELSE IF ~found
           THEN \* client.status of an undefined client
                /\ sent' = sent1
                /\ thrown' = "TypeError"
                /\ UNCHANGED db
           ELSE LET r == Reorder(id, status, priority)
                    list == updatedClients(r, db[id].status, status)
                IN  IF WritesUndefined(list, r.mem) /\ ~nullable
                    THEN \* the write is refused, the transaction rolls back
                         /\ sent' = sent1
                         /\ thrown' = "SqliteError"
                         /\ UNCHANGED db
                    ELSE /\ db' = runAll(list, r.mem, db)
                         /\ sent' = Append(sent1, 200)
                         /\ thrown' = "none"

\* The exchange is over: the handler is synchronous, so the next request
\* starts only now, with a fresh snapshot and a fresh response.
Close ==
    /\ req # Idle
    /\ req' = Idle
    /\ prev' = db
    /\ sent' = <<>>
    /\ thrown' = "none"
    /\ UNCHANGED <<db, nullable>>

Next ==
    \/ \E id \in IdInputs, status \in StatusInputs,
          priority \in PriorityInputs : Put(id, status, priority)
    \/ Close

Spec == Init /\ [][Next]_vars


(***************************************************************************)
(* Vocabulary of the properties.  After Put, req is the request, prev the  *)
(* table the handler read and db the table it left.                        *)
(***************************************************************************)
Handled == req # Idle
Found == req.id \in Ids
Accepted == Handled /\ sent = <<200>> /\ thrown = "none"
Target == req.id

Members(table, lane) == {i \in Ids : table[i].status = lane}

\* The priorities of the lane are exactly 1..n, each held once.
Dense(table, lane) ==
    LET m == Members(table, lane)
    IN  /\ {table[i].priority : i \in m} = {Units(k) : k \in 1..Cardinality(m)}
        /\ \A i, j \in m : table[i].priority = table[j].priority => i = j

AllDense(table) == \A lane \in Lanes : Dense(table, lane)

\* The request is one of the updates the interface documents.
DocumentedInput ==
    /\ Found
    /\ req.status \in Lanes \cup {Undefined}
    /\ req.priority \in PriorityInputs

SameLaneRequest ==
    /\ Handled /\ Found
    /\ prev[Target].status \in Lanes
    /\ req.status \in {Undefined, prev[Target].status}

LaneChangeRequest ==
    /\ Handled /\ Found
    /\ req.status \in Lanes
    /\ req.status # prev[Target].status

\* C1: from a table whose lanes are all dense, an accepted update with a
\* valid or absent status and a positive or absent priority leaves every
\* lane dense: priorities exactly 1..n, none held twice.
C1_DensityKept ==
    (Accepted /\ DocumentedInput /\ AllDense(prev)) => AllDense(db)

\* C2: in a dense lane, a request that keeps the lane and asks for another
\* priority P of 1..n puts the target immediately before the client that
\* held P and renumbers the lane 1..n in that order.
C2_SameLaneReprioritize ==
    LET lane == prev[Target].status
        n == Cardinality(Members(prev, lane))
        P == req.priority
        holder == CHOOSE j \in Members(prev, lane) :
                      prev[j].priority = Units(P)
        \* position of client j once the target is taken out of the order
        Rank(j) == Cardinality({k \in Members(prev, lane) \ {Target} :
                                   prev[k].priority <= prev[j].priority})
        Expected(j) == IF j = Target THEN Rank(holder)
                       ELSE IF Rank(j) >= Rank(holder) THEN Rank(j) + 1
                       ELSE Rank(j)
    IN  (/\ SameLaneRequest
         /\ Dense(prev, lane)
         /\ P \in 1..n
         /\ Units(P) # prev[Target].priority)
        => /\ Members(db, lane) = Members(prev, lane)
           /\ \A j \in Members(prev, lane) :
                 db[j].priority = Units(Expected(j))

\* C3: a move to another lane with priority P of 1..m+1 leaves the target in
\* the destination with priority P, raises by one every destination member
\* that had priority >= P and leaves the members below P alone.
C3_LaneChangeWithPriority ==
    LET dest == req.status
        old == Members(prev, dest)
        P == req.priority
    IN  (LaneChangeRequest /\ P \in 1..(Cardinality(old) + 1))
        => /\ db[Target].status = dest
           /\ db[Target].priority = Units(P)
           /\ \A j \in old :
                 /\ db[j].status = dest
                 /\ db[j].priority =
                       IF prev[j].priority >= Units(P)
                       THEN prev[j].priority + Units(1)
                       ELSE prev[j].priority

\* C4: a move to another lane without a priority puts the target last in
\* the destination (priority m+1), keeps the priorities of the destination's
\* members and renumbers the rest of the source lane 1..n-1 in its order.
C4_LaneChangeAppend ==
    LET dest == req.status
        old == Members(prev, dest)
        source == prev[Target].status
        rest == Members(prev, source) \ {Target}
    IN  (LaneChangeRequest /\ req.priority = NoPriority)
        => /\ db[Target].status = dest
           /\ db[Target].priority = Units(Cardinality(old) + 1)
           /\ \A j \in old : db[j] = prev[j]
           /\ \A j \in rest : db[j].status = source
           /\ {db[j].priority : j \in rest} =
                 {Units(k) : k \in 1..Cardinality(rest)}
           /\ \A j, k \in rest :
                 prev[j].priority < prev[k].priority
                    => db[j].priority < db[k].priority

\* C5: a request for an existing client that asks for no change (status and
\* priority both absent, or both equal to the client's) changes no client.
C5_NoOp ==
    (/\ Handled /\ Found
     /\ \/ req.status = Undefined /\ req.priority = NoPriority
        \/ /\ req.status = prev[Target].status
           /\ Units(req.priority) = prev[Target].priority)
    => db = prev

\* C6: a request for an id that no client has ends with the one error
\* response: no field of the missing client is read, nothing more is sent
\* and no client changes.
C6_UnknownIdAborts ==
    (Handled /\ ~Found)
    => /\ sent = <<400>>
       /\ thrown = "none"
       /\ db = prev

C8_Frame ==
    (Accepted /\ Found)
    => \A j \in Ids :
          prev[j].status \notin {prev[Target].status, db[Target].status}
             => db[j] = prev[j]

C8_Witness ==
    /\ Accepted /\ Found
    /\ db[Target].status # prev[Target].status
    /\ \E j \in Ids :
          /\ prev[j].status \notin {prev[Target].status, db[Target].status}
          /\ db[j] = prev[j]
    /\ \E k \in Ids \ {Target} : db[k] # prev[k]

\* C9: after an accepted update, two clients other than the target that
\* share a lane before and after keep their relative order: the one with
\* the lower priority before has the lower priority after.
C9_OrderPreserved ==
    (Accepted /\ Found)
    => \A j, k \in Ids \ {Target} :
          (/\ prev[j].status = prev[k].status
           /\ db[j].status = db[k].status
           /\ prev[j].priority < prev[k].priority)
          => db[j].priority < db[k].priority

C9_Witness ==
    /\ Accepted /\ Found
    /\ \E j, k \in Ids \ {Target} :
          /\ prev[j].status = prev[k].status
          /\ db[j].status = db[k].status
          /\ prev[j].priority < prev[k].priority
          /\ db[j].priority < db[k].priority
          /\ db[j].priority # prev[j].priority
          /\ db[k].priority # prev[k].priority

\* C10: from a table whose statuses are all lanes, any request for an
\* existing client leaves every status a lane, and a request without a
\* status leaves the target in its lane.
C10_StatusValid ==
    (/\ Handled /\ Found
     /\ \A i \in Ids : prev[i].status \in Lanes)
    => /\ \A i \in Ids : db[i].status \in Lanes
       /\ req.status = Undefined => db[Target].status = prev[Target].status

====
